---- MODULE Spec2Model ----
(***************************************************************************)
(* KPI audit tool.  Four specifications:                                   *)
(*   Spec    the scoring engine of utils.py under a caller (vanity         *)
(*           classifier, value classifier, impact scorer, views);          *)
(*   SpecApp the analysis section of the dashboard script app.py;          *)
(*   SpecUi  the script runs of a dashboard session and its session state; *)
(*   SpecDb  save_df_to_db of db_utils.py.                                 *)
(*                                                                         *)
(* A DataFrame is [columns, rows]; each entry of rows is [idx, row]: the   *)
(* index label and the record of the cells.  Cells are Python strings,     *)
(* integers, booleans or NaN.  DataFrames are objects: heap maps           *)
(* references to                                                           *)
(* DataFrames, so that a copy and an alias are different things.           *)
(* Impact scores are kept in hundredths (0.91 is 91): every weight and     *)
(* sub-score of the code is a multiple of 0.1.                             *)
(***************************************************************************)
EXTENDS Integers, Sequences, FiniteSets, TLC

VARIABLES
    heap,               \* reference -> DataFrame
    fn, arg, n, ret,    \* engine: the latest call, its table, its n, its result
    pc, df, vanity_df, analyzed_df,                 \* app.py: script position, locals
    top_metrics, metrics_to_remove, impact_scores,  \* app.py: locals
    ss,                 \* app.py: st.session_state, key -> value
    uploaded_file, use_sample_data,     \* app.py: the sidebar's input widgets
    sample_file,        \* whether the sample CSV is on disk
    rerun,              \* st.rerun() was called: a run with no event follows
    click, prev_click,  \* the button clicked in the latest run and in the one before
    kpi_metrics,        \* db_utils.py: the committed rows of table kpi_metrics
    db_before, db_ret, db_step  \* save_df_to_db: table at the call, result, last step

vars == <<heap, fn, arg, n, ret, pc, df, vanity_df, analyzed_df,
          top_metrics, metrics_to_remove, impact_scores,
          ss, uploaded_file, use_sample_data, sample_file, rerun, click, prev_click,
          kpi_metrics, db_before, db_ret, db_step>>

engine_vars == <<fn, arg, n, ret>>
app_vars == <<pc, df, vanity_df, analyzed_df, top_metrics, metrics_to_remove, impact_scores>>
ui_vars == <<ss, uploaded_file, use_sample_data, sample_file, rerun, click, prev_click>>
db_vars == <<kpi_metrics, db_before, db_ret, db_step>>

\* Largest number of rows of a table built from SampleRows.
MaxRows == 3
\* Largest n passed to get_top_metrics_by_department.
MaxN == 2

None == "None"
\* The reference of no object (a local that is None).
NoRef == 0

(***************************************************************************)
(* Python strings                                                          *)
(***************************************************************************)
\* The upper-case ASCII letters and their lower-case forms.
LOWER ==
    [A |-> "a", B |-> "b", C |-> "c", D |-> "d", E |-> "e", F |-> "f", G |-> "g",
     H |-> "h", I |-> "i", J |-> "j", K |-> "k", L |-> "l", M |-> "m", N |-> "n",
     O |-> "o", P |-> "p", Q |-> "q", R |-> "r", S |-> "s", T |-> "t", U |-> "u",
     V |-> "v", W |-> "w", X |-> "x", Y |-> "y", Z |-> "z"]

lower_char(c) == IF c \in DOMAIN LOWER THEN LOWER[c] ELSE c

\* str.lower()
RECURSIVE lower(_)
lower(s) ==
    IF s = "" THEN ""
    ELSE lower_char(SubSeq(s, 1, 1)) \o lower(SubSeq(s, 2, Len(s)))

\* `k in s` for strings
contains(k, s) ==
    \E i \in 0..(Len(s) - Len(k)) : SubSeq(s, i + 1, i + Len(k)) = k

\* str.rstrip(chars): drops trailing characters that are in chars
RECURSIVE rstrip(_, _)
rstrip(s, chars) ==
    IF s # "" /\ SubSeq(s, Len(s), Len(s)) \in chars
    THEN rstrip(SubSeq(s, 1, Len(s) - 1), chars)
    ELSE s

\* str.strip(): leading and trailing whitespace removed
RECURSIVE lstrip(_)
lstrip(s) ==
    IF s # "" /\ SubSeq(s, 1, 1) \in {" ", "\t"} THEN lstrip(SubSeq(s, 2, Len(s))) ELSE s

strip(s) == rstrip(lstrip(s), {" ", "\t"})

(***************************************************************************)
(* Cells.  A cell is a Python string or the float NaN of a missing value.  *)
(* NaN is written as a token no string cell can equal: load_data strips    *)
(* every string cell, and the token starts with a blank.  NaN equals no    *)
(* string, is in no list of strings, and formats as "nan".                 *)
(***************************************************************************)
NaN == " nan"

is_str(x) == x # NaN

\* isinstance(x, str), the guard of the row loops
isinstance_any(x) == TRUE
isinstance_str(x) == is_str(x)

\* f"{x}"
fstr(x) == IF is_str(x) THEN x ELSE "nan"

(***************************************************************************)
(* DataFrames                                                              *)
(***************************************************************************)
RequiredColumns ==
    {"Department", "Metric_Name", "Visible_in_Dashboard", "Used_in_Decision_Making",
     "Executive_Requested", "Last_Reviewed", "Metric_Last_Used_For_Decision",
     "Interpretation_Notes"}

\* Field texts pd.read_csv reads as a missing value (some of its defaults).
na_values == {"", "NA", "N/A", "NaN", "null"}

\* pd.read_csv: the header texts as column names, the rows under a
\* RangeIndex 0..len-1, missing fields as NaN.  csv_rows[i] holds the field
\* texts of line i by attribute; the field under a header is the one of the
\* attribute the header names.
read_csv(headers, csv_rows) ==
    [columns |-> headers,
     rows |-> [i \in 1..Len(csv_rows) |->
                 [idx |-> i - 1,
                  row |-> [h \in headers |->
                             IF csv_rows[i][strip(h)] \in na_values THEN NaN
                             ELSE csv_rows[i][strip(h)]]]]]

\* df[col].dtype == 'object': a column of text fields holds strings unless
\* every field of it is missing (then it is a float column of NaN).
dtype_object(T, col) ==
    T.rows = <<>> \/ \E i \in DOMAIN T.rows : is_str(T.rows[i].row[col])

\* df[col].fillna('Unknown').astype(str).str.strip(), one cell
clean_cell(x) == strip(IF is_str(x) THEN x ELSE "Unknown")

\* load_data: read, strip the column names, clean the object columns.
load_data(headers, csv_rows) ==
    LET raw == read_csv(headers, csv_rows)
        header(c) == CHOOSE h \in headers : strip(h) = c
    IN [columns |-> {strip(h) : h \in headers},
        rows |-> [i \in DOMAIN raw.rows |->
                    [idx |-> raw.rows[i].idx,
                     row |-> [c \in {strip(h) : h \in headers} |->
                                IF dtype_object(raw, header(c))
                                THEN clean_cell(raw.rows[i].row[header(c)])
                                ELSE raw.rows[i].row[header(c)]]]]]

\* r with r[c] = v (a dict or row assignment)
Put(r, c, v) == (c :> v) @@ r

\* df[c] = series   (series is aligned with the rows by position)
RECURSIVE assign_rows(_, _, _, _)
assign_rows(rows, c, series, i) ==
    IF i > Len(rows) THEN <<>>
    ELSE <<[idx |-> rows[i].idx, row |-> Put(rows[i].row, c, series[i])]>>
         \o assign_rows(rows, c, series, i + 1)

Assign(T, c, series) ==
    [columns |-> T.columns \cup {c}, rows |-> assign_rows(T.rows, c, series, 1)]

\* df[c] = scalar
AssignScalar(T, c, v) == Assign(T, c, [i \in DOMAIN T.rows |-> v])

\* df.loc[mask, c] += v   (numbers)
LocMaskAdd(T, mask, c, v) ==
    Assign(T, c, [i \in DOMAIN T.rows |->
                    IF mask[i] THEN T.rows[i].row[c] + v ELSE T.rows[i].row[c]])

\* df.loc[mask, c] += s   (strings)
LocMaskCat(T, mask, c, s) ==
    Assign(T, c, [i \in DOMAIN T.rows |->
                    IF mask[i] THEN T.rows[i].row[c] \o s ELSE T.rows[i].row[c]])

\* df.loc[idx, c] += v: every row whose index label is idx
LocAdd(T, idx, c, v) == LocMaskAdd(T, [i \in DOMAIN T.rows |-> T.rows[i].idx = idx], c, v)
LocCat(T, idx, c, s) == LocMaskCat(T, [i \in DOMAIN T.rows |-> T.rows[i].idx = idx], c, s)

KeyError(c) == [error |-> "KeyError", key |-> c]
\* x.lower() on a float; `key in x` on a float
AttributeError == [error |-> "AttributeError", key |-> "lower"]
TypeError == [error |-> "TypeError", key |-> "in"]
Ok(v) == [raised |-> FALSE, value |-> v]
Raise(e) == [raised |-> TRUE, value |-> e]

\* The first column of `needed` (in access order) the table lacks, or None.
RECURSIVE FirstMissing(_, _)
FirstMissing(T, needed) ==
    IF needed = <<>> THEN None
    ELSE IF Head(needed) \notin T.columns THEN Head(needed)
    ELSE FirstMissing(T, Tail(needed))

\* df.copy(): a new object with the same contents
copy_alias(h, ref) == [heap |-> h, ref |-> ref]
copy(h, ref) ==
    LET new == CHOOSE o \in 1..(Cardinality(DOMAIN h) + 1) :
                   o \notin DOMAIN h /\ \A p \in 1..(o - 1) : p \in DOMAIN h
    IN [heap |-> [o \in (DOMAIN h) \cup {new} |-> IF o = new THEN h[ref] ELSE h[o]],
        ref |-> new]

(***************************************************************************)
(* The keyword loops of both classifiers:                                  *)
(*   for idx, row in result_df.iterrows():                                 *)
(*       if isinstance(row[col], str):                                     *)
(*           for term in terms:                                            *)
(*               if term.lower() in row[col].lower():                      *)
(*                   result_df.loc[idx, score] += pts                      *)
(*                   result_df.loc[idx, reasons] += reason                 *)
(*                   [break]                                               *)
(* kind is "vanity" or "value"; reasons[j] is the fragment of terms[j];    *)
(* brk says whether the inner loop ends with break.                        *)
(***************************************************************************)
RECURSIVE term_loop(_, _, _, _, _, _, _, _, _)
term_loop(T, idx, text, terms, reasons, kind, pts, brk, j) ==
    IF j > Len(terms) THEN T
    ELSE IF contains(lower(terms[j]), lower(text))
         THEN LET hit == LocCat(LocAdd(T, idx, kind \o "_score", pts),
                                idx, kind \o "_reasons", reasons[j])
              IN IF brk THEN hit
                 ELSE term_loop(hit, idx, text, terms, reasons, kind, pts, brk, j + 1)
         ELSE term_loop(T, idx, text, terms, reasons, kind, pts, brk, j + 1)

\* iterrows() yields the rows as they were when the loop started.
RECURSIVE row_loop(_, _, _, _, _, _, _, _, _)
row_loop(T, snapshot, col, terms, reasons, kind, pts, brk, i) ==
    IF i > Len(snapshot) THEN T
    ELSE IF ~isinstance_str(snapshot[i].row[col])
         THEN row_loop(T, snapshot, col, terms, reasons, kind, pts, brk, i + 1)
    ELSE row_loop(term_loop(T, snapshot[i].idx, snapshot[i].row[col],
                            terms, reasons, kind, pts, brk, 1),
                  snapshot, col, terms, reasons, kind, pts, brk, i + 1)

\* Some cell of the columns gets past the isinstance guard without being a
\* string: the string operation on it raises.
NotStrReached(T, cols) ==
    \E i \in DOMAIN T.rows, c \in cols :
        isinstance_str(T.rows[i].row[c]) /\ ~is_str(T.rows[i].row[c])

(***************************************************************************)
(* identify_vanity_metrics                                                 *)
(***************************************************************************)
never_used == <<"Never", "Unknown", "Don't know">>
vanity_keywords == <<"vanity", "optics", "unclear ownership", "misinterpreted">>

InSeq(x, s) == \E i \in DOMAIN s : s[i] = x

vanity_init_keep(T) ==
    LET a == IF "vanity_score" \in T.columns THEN T ELSE AssignScalar(T, "vanity_score", 0)
    IN IF "vanity_reasons" \in a.columns THEN a ELSE AssignScalar(a, "vanity_reasons", "")
vanity_init(T) == AssignScalar(AssignScalar(T, "vanity_score", 0), "vanity_reasons", "")

vanity_rule1(T) ==
    LET mask == [i \in DOMAIN T.rows |->
                   T.rows[i].row.Visible_in_Dashboard = "Yes"
                   /\ T.rows[i].row.Used_in_Decision_Making = "No"]
    IN LocMaskCat(LocMaskAdd(T, mask, "vanity_score", 3),
                  mask, "vanity_reasons", "Visible but not used in decisions; ")

vanity_rule2(T) ==
    LET mask == [i \in DOMAIN T.rows |->
                   T.rows[i].row.Executive_Requested = "Yes"
                   /\ T.rows[i].row.Used_in_Decision_Making = "No"]
    IN LocMaskCat(LocMaskAdd(T, mask, "vanity_score", 2),
                  mask, "vanity_reasons", "Executive requested but not used; ")

vanity_rule3(T) ==
    LET mask == [i \in DOMAIN T.rows |->
                   \/ T.rows[i].row.Last_Reviewed = "Unknown"
                   \/ T.rows[i].row.Last_Reviewed = "Last quarter"
                   \/ T.rows[i].row.Last_Reviewed = "Last year"]
    IN LocMaskCat(LocMaskAdd(T, mask, "vanity_score", 1),
                  mask, "vanity_reasons", "Not recently reviewed; ")

vanity_rule4(T) ==
    LET mask == [i \in DOMAIN T.rows |->
                   InSeq(T.rows[i].row.Metric_Last_Used_For_Decision, never_used)]
    IN LocMaskCat(LocMaskAdd(T, mask, "vanity_score", 2),
                  mask, "vanity_reasons", "Never or rarely used for decisions; ")

vanity_rule5_first_only(T) ==
    row_loop(T, T.rows, "Interpretation_Notes", vanity_keywords,
             [j \in DOMAIN vanity_keywords |->
                "Notes indicate vanity (" \o vanity_keywords[j] \o "); "],
             "vanity", 2, TRUE, 1)
vanity_rule5(T) ==
    row_loop(T, T.rows, "Interpretation_Notes", vanity_keywords,
             [j \in DOMAIN vanity_keywords |->
                "Notes indicate vanity (" \o vanity_keywords[j] \o "); "],
             "vanity", 2, FALSE, 1)

vanity_cleanup_none(T) == T
vanity_cleanup(T) ==
    Assign(T, "vanity_reasons",
           [i \in DOMAIN T.rows |-> rstrip(T.rows[i].row.vanity_reasons, {";", " "})])

vanity_classify(T) ==
    Assign(T, "is_vanity", [i \in DOMAIN T.rows |-> T.rows[i].row.vanity_score >= 3])

\* Lines 27-65 on result_df; a missing column raises KeyError where it is
\* first read (Interpretation_Notes is read only inside the row loop).
vanity_body(result_df) ==
    LET missing == FirstMissing(result_df,
                       <<"Visible_in_Dashboard", "Used_in_Decision_Making",
                         "Executive_Requested", "Last_Reviewed",
                         "Metric_Last_Used_For_Decision">>
                       \o (IF result_df.rows = <<>> THEN <<>>
                           ELSE <<"Interpretation_Notes">>))
    IN IF missing # None THEN Raise(KeyError(missing))
       ELSE IF NotStrReached(result_df, {"Interpretation_Notes"}) THEN Raise(AttributeError)
       ELSE Ok(vanity_classify(vanity_cleanup(vanity_rule5(vanity_rule4(
                vanity_rule3(vanity_rule2(vanity_rule1(vanity_init(result_df)))))))))

\* Returns [heap, raised, value]: the heap after the call and the reference
\* returned (or the exception raised).
identify_vanity_metrics(h, table) ==
    LET c == copy(h, table)
        result_df == c.ref
        out == vanity_body(c.heap[result_df])
    IN IF out.raised THEN [heap |-> h, raised |-> TRUE, value |-> out.value]
       ELSE [heap |-> [c.heap EXCEPT ![result_df] = out.value],
             raised |-> FALSE, value |-> result_df]

(***************************************************************************)
(* identify_valuable_metrics                                               *)
(***************************************************************************)
recent_decision_terms == <<"recently", "this week", "2 weeks ago", "last month">>
recent_review_terms == <<"this week", "last month">>
value_keywords == <<"tied to real goals", "drives", "customer impact", "strategic", "revenue">>

value_init_reset(T) ==
    AssignScalar(AssignScalar(AssignScalar(T, "value_score", 0), "value_reasons", ""),
                 "vanity_score", 0)
value_init(T) == AssignScalar(AssignScalar(T, "value_score", 0), "value_reasons", "")

value_rule1(T) ==
    LET mask == [i \in DOMAIN T.rows |-> T.rows[i].row.Used_in_Decision_Making = "Yes"]
    IN LocMaskCat(LocMaskAdd(T, mask, "value_score", 3),
                  mask, "value_reasons", "Used in decisions; ")

value_rule2_no_break(T) ==
    row_loop(T, T.rows, "Metric_Last_Used_For_Decision", recent_decision_terms,
             [j \in DOMAIN recent_decision_terms |-> "Recently used for decisions; "],
             "value", 2, FALSE, 1)
value_rule2(T) ==
    row_loop(T, T.rows, "Metric_Last_Used_For_Decision", recent_decision_terms,
             [j \in DOMAIN recent_decision_terms |-> "Recently used for decisions; "],
             "value", 2, TRUE, 1)

value_rule3(T) ==
    row_loop(T, T.rows, "Last_Reviewed", recent_review_terms,
             [j \in DOMAIN recent_review_terms |-> "Recently reviewed; "],
             "value", 1, TRUE, 1)

value_rule4(T) ==
    row_loop(T, T.rows, "Interpretation_Notes", value_keywords,
             [j \in DOMAIN value_keywords |->
                "Notes indicate value (" \o value_keywords[j] \o "); "],
             "value", 2, FALSE, 1)

value_cleanup(T) ==
    Assign(T, "value_reasons",
           [i \in DOMAIN T.rows |-> rstrip(T.rows[i].row.value_reasons, {";", " "})])

value_classify(T) ==
    Assign(T, "is_high_value", [i \in DOMAIN T.rows |-> T.rows[i].row.value_score >= 4])

\* Lines 74-116 on result_df; the three text columns are read only inside
\* the row loops, so an empty table never reads them.
value_body(result_df) ==
    LET missing == FirstMissing(result_df,
                       <<"Used_in_Decision_Making">>
                       \o (IF result_df.rows = <<>> THEN <<>>
                           ELSE <<"Metric_Last_Used_For_Decision", "Last_Reviewed",
                                  "Interpretation_Notes">>))
    IN IF missing # None THEN Raise(KeyError(missing))
       ELSE IF NotStrReached(result_df, {"Metric_Last_Used_For_Decision", "Last_Reviewed",
                                         "Interpretation_Notes"})
            THEN Raise(AttributeError)
       ELSE Ok(value_classify(value_cleanup(value_rule4(value_rule3(
                value_rule2(value_rule1(value_init(result_df))))))))

identify_valuable_metrics(h, table) ==
    LET c == copy(h, table)
        result_df == c.ref
        out == value_body(c.heap[result_df])
    IN IF out.raised THEN [heap |-> h, raised |-> TRUE, value |-> out.value]
       ELSE [heap |-> [c.heap EXCEPT ![result_df] = out.value],
             raised |-> FALSE, value |-> result_df]

(***************************************************************************)
(* Selecting and ordering rows                                             *)
(***************************************************************************)
\* df[mask]: the rows whose mask entry is true, in their order
RECURSIVE boolean_index(_, _, _)
boolean_index(rows, mask, i) ==
    IF i > Len(rows) THEN <<>>
    ELSE (IF mask[i] THEN <<rows[i]>> ELSE <<>>) \o boolean_index(rows, mask, i + 1)

Arrangements(k) == {p \in [1..k -> 1..k] : \A i, j \in 1..k : i # j => p[i] # p[j]}

\* DataFrame.sort_values(col, ascending=False).  The call leaves kind at its
\* default, 'quicksort', which is not a stable sort: the order of rows with
\* equal keys depends on the numpy build and on the size of the table.  The
\* set of the orderings the call can return: every arrangement of the rows
\* that is descending in col.
sort_values_desc(rows, col) ==
    {[i \in DOMAIN rows |-> rows[p[i]]] :
        p \in {q \in Arrangements(Len(rows)) :
                 \A i \in 1..(Len(rows) - 1) : rows[q[i]].row[col] >= rows[q[i + 1]].row[col]}}

\* DataFrame.head(k): the first k rows; for a negative k all but the last -k
head_short(rows, k) == SubSeq(rows, 1, IF k - 1 < Len(rows) THEN k - 1 ELSE Len(rows))
head(rows, k) ==
    IF k >= 0 THEN SubSeq(rows, 1, IF k < Len(rows) THEN k ELSE Len(rows))
    ELSE SubSeq(rows, 1, Len(rows) + k)

(***************************************************************************)
(* get_top_metrics_by_department: the set of the outcomes the call can     *)
(* have, each Ok(dict from department to DataFrame) or a raised KeyError.  *)
(***************************************************************************)
get_top_metrics_by_department(T, k) ==
    IF "Department" \notin T.columns THEN {Raise(KeyError("Department"))}
    ELSE LET depts == {T.rows[i].row.Department : i \in DOMAIN T.rows}
         IN IF depts # {} /\ "value_score" \notin T.columns
            THEN {Raise(KeyError("value_score"))}
            ELSE LET dept_rows(d) ==
                         boolean_index(T.rows,
                             [i \in DOMAIN T.rows |-> T.rows[i].row.Department = d], 1)
                     choices(d) ==
                         {[columns |-> T.columns, rows |-> head(s, k)] :
                             s \in sort_values_desc(dept_rows(d), "value_score")}
                 IN {Ok(top) :
                        top \in {f \in [depts -> UNION {choices(d) : d \in depts}] :
                                   \A d \in depts : f[d] \in choices(d)}}

(***************************************************************************)
(* calculate_metric_impact_score (scores in hundredths, weights and        *)
(* sub-scores in tenths)                                                   *)
(***************************************************************************)
weights_heavy == [decision_making |-> 6, recency |-> 3, visibility |-> 1, executive_interest |-> 2]
weights == [decision_making |-> 4, recency |-> 3, visibility |-> 1, executive_interest |-> 2]

\* in dict (insertion) order
recency_map ==
    << <<"This week", 10>>, <<"Recently", 9>>, <<"2 weeks ago", 8>>, <<"Last month", 6>>,
       <<"Last quarter", 3>>, <<"Never", 0>>, <<"Unknown", 0>>, <<"Don't know", 0>> >>

decision_score(row) == IF row.Used_in_Decision_Making = "Yes" THEN 10 ELSE 0

\* the last matching key instead of the first
RECURSIVE recency_loop_last(_, _)
recency_loop_last(text, k) ==
    IF k > Len(recency_map) THEN 0
    ELSE IF \E m \in (k + 1)..Len(recency_map) : contains(recency_map[m][1], text)
         THEN recency_loop_last(text, k + 1)
    ELSE IF contains(recency_map[k][1], text) THEN recency_map[k][2]
    ELSE 0

RECURSIVE recency_loop(_, _)
recency_loop(text, k) ==
    IF k > Len(recency_map) THEN 0
    ELSE IF contains(recency_map[k][1], text) THEN recency_map[k][2]
    ELSE recency_loop(text, k + 1)

recency_score(row) ==
    IF isinstance_str(row.Metric_Last_Used_For_Decision)
    THEN recency_loop(row.Metric_Last_Used_For_Decision, 1)
    ELSE 0

visibility_score_full(row) == IF row.Visible_in_Dashboard = "Yes" THEN 10 ELSE 0
visibility_score(row) == IF row.Visible_in_Dashboard = "Yes" THEN 5 ELSE 0

executive_score(row) == IF row.Executive_Requested = "Yes" THEN 8 ELSE 0

impact_score(row) ==
    weights.decision_making * decision_score(row)
    + weights.recency * recency_score(row)
    + weights.visibility * visibility_score(row)
    + weights.executive_interest * executive_score(row)

metric_id(row) == fstr(row.Department) \o "_" \o fstr(row.Metric_Name)

RECURSIVE impact_loop(_, _, _)
impact_loop(rows, scores, i) ==
    IF i > Len(rows) THEN scores
    ELSE impact_loop(rows, Put(scores, metric_id(rows[i].row), impact_score(rows[i].row)),
                     i + 1)

\* Ok(dict from metric id to score) or a raised KeyError; the columns are
\* read row by row, so an empty table reads none.
calculate_metric_impact_score(T) ==
    LET missing == IF T.rows = <<>> THEN None
                   ELSE FirstMissing(T, <<"Department", "Metric_Name",
                            "Used_in_Decision_Making", "Metric_Last_Used_For_Decision",
                            "Visible_in_Dashboard", "Executive_Requested">>)
    IN IF missing # None THEN Raise(KeyError(missing))
       ELSE IF NotStrReached(T, {"Metric_Last_Used_For_Decision"}) THEN Raise(TypeError)
       ELSE Ok(impact_loop(T.rows, <<>>, 1))

(***************************************************************************)
(* get_metrics_to_remove: the set of the outcomes the call can have        *)
(***************************************************************************)
remove_mask_ignoring_value(row) ==
    row.is_vanity = TRUE /\ row.Visible_in_Dashboard = "Yes"
remove_mask(row) ==
    row.is_vanity = TRUE /\ row.Visible_in_Dashboard = "Yes" /\ row.is_high_value = FALSE

get_metrics_to_remove(T) ==
    LET missing == FirstMissing(T, <<"is_vanity", "Visible_in_Dashboard",
                                     "is_high_value", "vanity_score">>)
    IN IF missing # None THEN {Raise(KeyError(missing))}
       ELSE {Ok([columns |-> T.columns, rows |-> s]) :
               s \in sort_values_desc(
                        boolean_index(T.rows,
                            [i \in DOMAIN T.rows |-> remove_mask(T.rows[i].row)], 1),
                        "vanity_score")}

(***************************************************************************)
(* Input tables                                                            *)
(***************************************************************************)
Row(d, m, v, u, e, lr, lu, notes) ==
    [Department |-> d, Metric_Name |-> m, Visible_in_Dashboard |-> v,
     Used_in_Decision_Making |-> u, Executive_Requested |-> e, Last_Reviewed |-> lr,
     Metric_Last_Used_For_Decision |-> lu, Interpretation_Notes |-> notes]

\* Lines of which the CSVs of several lines are made.  The second and the
\* fourth differ in department and name and have the same metric_id; the
\* fourth has a field in blanks and no notes.
SampleRows ==
    {Row("Sales", "Revenue", "Yes", "Yes", "Yes", "This week", "This week", "Drives revenue"),
     Row("Sales", "Page_Views", "Yes", "No", "Yes", "Last year", "Never",
         "Used mainly for optics"),
     Row("Ops", "Uptime", "Yes", "No", "No", "Unknown", "last month",
         "strategic, drives decisions"),
     Row("Sales_Page", "Views", "Yes", "No", "No", "Last quarter", " Unknown ", "")}

SampleSeqs == UNION {[1..k -> SampleRows] : k \in 0..MaxRows}

\* Rows of the one-row tables: every combination of these cell values.
VisibleValues == {"Yes", "No"}
UsedValues == {"Yes", "No", "yes"}
ExecutiveValues == {"Yes", "No"}
LastReviewedValues == {"Last year", "unknown", "This week and last month"}
LastUsedValues == {"Never", "Recently or This week", "Don't know yet"}
NotesValues == {"Unknown", "Vanity optics; drives revenue", "Strategic"}

RecordRows ==
    {Row("Sales", "Metric", v, u, e, lr, lu, notes) :
        v \in VisibleValues, u \in UsedValues, e \in ExecutiveValues,
        lr \in LastReviewedValues, lu \in LastUsedValues, notes \in NotesValues}

\* Lines with one field missing (k = 1..6) or all six (k = 0), in the
\* spellings of a missing value.
MissingRows ==
    {Row("Sales", "Metric",
         IF k \in {0, 1} THEN "" ELSE "Yes",
         IF k \in {0, 2} THEN "NA" ELSE "No",
         IF k \in {0, 3} THEN "N/A" ELSE "Yes",
         IF k \in {0, 4} THEN "NaN" ELSE "Last year",
         IF k \in {0, 5} THEN "null" ELSE "Recently",
         IF k \in {0, 6} THEN "" ELSE "optics") : k \in 0..6}

InputTables ==
    {load_data(RequiredColumns, s) :
        s \in SampleSeqs \cup {<<r>> : r \in RecordRows \cup MissingRows}}

(***************************************************************************)
(* The engine under a caller.  The caller first classifies: it holds the   *)
(* argument and the result of its latest classifier call, passes either of *)
(* them to its next call and lets go of the other.  It then derives one of *)
(* the views from a table it holds, which ends its run: the views change   *)
(* no table.                                                               *)
(***************************************************************************)
ViewFns ==
    {"get_top_metrics_by_department", "get_metrics_to_remove",
     "calculate_metric_impact_score"}

AppIdle ==
    /\ pc = "idle" /\ df = NoRef /\ vanity_df = NoRef /\ analyzed_df = NoRef
    /\ top_metrics = None /\ metrics_to_remove = None /\ impact_scores = None

\* A session before its first script run: no state, the widgets at their
\* defaults (no file, the sample-data box ticked).
EmptyState == [k \in {} |-> TRUE]

UiIdle ==
    /\ ss = EmptyState /\ uploaded_file = None /\ use_sample_data = TRUE
    /\ sample_file = TRUE /\ rerun = FALSE /\ click = None /\ prev_click = None

\* No save_df_to_db call yet, the table empty.
DbIdle ==
    /\ kpi_metrics = <<>> /\ db_before = <<>> /\ db_ret = None /\ db_step = "idle"

Init ==
    /\ \E T \in InputTables : heap = (1 :> T)
    /\ fn = None /\ arg = 1 /\ n = 0 /\ ret = Ok(None)
    /\ AppIdle /\ UiIdle /\ DbIdle

CallVanity ==
    /\ fn \notin ViewFns
    /\ \E src \in DOMAIN heap :
        LET r == identify_vanity_metrics((src :> heap[src]), src)
        IN /\ heap' = r.heap
           /\ fn' = "identify_vanity_metrics" /\ arg' = src /\ n' = 0
           /\ ret' = [raised |-> r.raised, value |-> r.value]
           /\ UNCHANGED <<app_vars, ui_vars, db_vars>>

CallValuable ==
    /\ fn \notin ViewFns
    /\ \E src \in DOMAIN heap :
        LET r == identify_valuable_metrics((src :> heap[src]), src)
        IN /\ heap' = r.heap
           /\ fn' = "identify_valuable_metrics" /\ arg' = src /\ n' = 0
           /\ ret' = [raised |-> r.raised, value |-> r.value]
           /\ UNCHANGED <<app_vars, ui_vars, db_vars>>

CallTop ==
    /\ fn \notin ViewFns
    /\ \E src \in DOMAIN heap, k \in 1..MaxN :
        \E r \in get_top_metrics_by_department(heap[src], k) :
            /\ fn' = "get_top_metrics_by_department" /\ arg' = src /\ n' = k
            /\ ret' = r
            /\ UNCHANGED <<heap, app_vars, ui_vars, db_vars>>

CallRemove ==
    /\ fn \notin ViewFns
    /\ \E src \in DOMAIN heap :
        \E r \in get_metrics_to_remove(heap[src]) :
            /\ fn' = "get_metrics_to_remove" /\ arg' = src /\ n' = 0
            /\ ret' = r
            /\ UNCHANGED <<heap, app_vars, ui_vars, db_vars>>

CallImpact ==
    /\ fn \notin ViewFns
    /\ \E src \in DOMAIN heap :
        /\ fn' = "calculate_metric_impact_score" /\ arg' = src /\ n' = 0
        /\ ret' = calculate_metric_impact_score(heap[src])
        /\ UNCHANGED <<heap, app_vars, ui_vars, db_vars>>

Next == CallVanity \/ CallValuable \/ CallTop \/ CallRemove \/ CallImpact

Spec == Init /\ [][Next]_vars

(***************************************************************************)
(* app.py, lines 166-212: the analysis section of a script run in which a  *)
(* table was loaded (df is not None).  pc is "loaded" before it and after  *)
(* it "exception" (an exception nothing catches ended the run: Streamlit   *)
(* shows it), "stopped" (the except branch: st.error, st.stop) or "tabs"   *)
(* (the run goes on to render the tabs from the results).                  *)
(***************************************************************************)
EmptyFrame == [columns |-> {}, rows |-> <<>>]

\* The locals as lines 192-196 initialise them, with what the try block
\* assigned before it raised or ended.
Locals(p, h, v, a, top, rem, imp) ==
    [pc |-> p, heap |-> h, vanity_df |-> v, analyzed_df |-> a,
     top_metrics |-> top, metrics_to_remove |-> rem, impact_scores |-> imp]

AnalysisOutcomes(h, table) ==
    IF FirstMissing(h[table], <<"Department", "Visible_in_Dashboard",
                                "Used_in_Decision_Making">>) # None
    THEN {Locals("exception", h, NoRef, NoRef, None, None, None)}
    ELSE LET v == identify_vanity_metrics(h, table)
         IN IF v.raised
            THEN {Locals("stopped", h, NoRef, NoRef, <<>>, EmptyFrame, EmptyFrame)}
            ELSE LET a == identify_valuable_metrics(v.heap, v.value)
                 IN IF a.raised
                    THEN {Locals("stopped", v.heap, v.value, NoRef,
                                 <<>>, EmptyFrame, EmptyFrame)}
                    ELSE LET analyzed == a.heap[a.value]
                             imp == calculate_metric_impact_score(analyzed)
                         IN UNION {
                              IF top.raised
                              THEN {Locals("stopped", a.heap, v.value, a.value,
                                           <<>>, EmptyFrame, EmptyFrame)}
                              ELSE UNION {
                                     IF rem.raised
                                     THEN {Locals("stopped", a.heap, v.value, a.value,
                                                  top.value, EmptyFrame, EmptyFrame)}
                                     ELSE IF imp.raised
                                     THEN {Locals("stopped", a.heap, v.value, a.value,
                                                  top.value, rem.value, EmptyFrame)}
                                     ELSE {Locals("tabs", a.heap, v.value, a.value,
                                                  top.value, rem.value, imp.value)} :
                                     rem \in get_metrics_to_remove(analyzed)} :
                              top \in get_top_metrics_by_department(analyzed, 3)}

AnalysisSection ==
    /\ pc = "loaded"
    /\ \E o \in AnalysisOutcomes(heap, df) :
        /\ pc' = o.pc /\ heap' = o.heap
        /\ vanity_df' = o.vanity_df /\ analyzed_df' = o.analyzed_df
        /\ top_metrics' = o.top_metrics
        /\ metrics_to_remove' = o.metrics_to_remove
        /\ impact_scores' = o.impact_scores
    /\ UNCHANGED <<df, engine_vars, ui_vars, db_vars>>

\* The tables load_data can hand to the section: all eight columns, or all
\* but one.
ColumnSets == {RequiredColumns} \cup {RequiredColumns \ {c} : c \in RequiredColumns}

InitApp ==
    /\ \E cols \in ColumnSets, s \in SampleSeqs : heap = (1 :> load_data(cols, s))
    /\ pc = "loaded" /\ df = 1 /\ vanity_df = NoRef /\ analyzed_df = NoRef
    /\ top_metrics = None /\ metrics_to_remove = None /\ impact_scores = None
    /\ fn = None /\ arg = 1 /\ n = 0 /\ ret = Ok(None)
    /\ UiIdle /\ DbIdle

NextApp == AnalysisSection

SpecApp == InitApp /\ [][NextApp]_vars

(***************************************************************************)
(* app.py, lines 34-212: the script runs of one session.  Streamlit runs   *)
(* the script from the top on every event; a button returns True only in   *)
(* the run its click started; st.rerun() ends the run and starts one with  *)
(* no event; the values of the sidebar's input widgets and                 *)
(* st.session_state outlive the runs, the script's variables do not.       *)
(* pc is where the latest run ended: "rerun" (st.rerun), "homepage"        *)
(* (st.stop at line 112), "prompt" (the hint of line 151: no analysis      *)
(* asked for), "no_data" (asked for, nothing to load), "load_error", or an *)
(* end of the analysis section.                                            *)
(***************************************************************************)
del(s, key) == [k \in DOMAIN s \ {key} |-> s[k]]
set(s, key, v) == (key :> v) @@ s

\* "key" in st.session_state and st.session_state["key"]
truthy_key(s, key) == key \in DOMAIN s /\ s[key]

\* st.button("Reset Analysis", key="reset_btn"): a widget with a key keeps
\* its value in st.session_state under the key.
reset_button(s, clicked) == set(s, "reset_btn", clicked)

\* lines 52-57, the body of the Audit Metrics button
audit_click(s) == set(del(s, "show_homepage"), "run_audit", TRUE)

\* lines 62-67, the body of the Reset Analysis button
reset_keep(s) == set(s, "show_homepage", TRUE)
reset_click(s) ==
    LET t == set(s, "show_homepage", TRUE)
    IN [k \in {key \in DOMAIN t : key = "show_homepage"} |-> t[k]]

\* lines 106-108, the body of the Start Analysis button
start_click(s) == del(s, "show_homepage")

\* lines 119-122: the flag is deleted when it is read as set
keep_run_audit(s) == s
consume_run_audit(s) == IF truthy_key(s, "run_audit") THEN del(s, "run_audit") ELSE s

\* The files a user uploads, and what is in them: lines load_data reads, a
\* file that lacks a column, a file pd.read_csv fails on.
Uploads == {"kpi.csv", "short.csv", "broken.csv"}

FileLines ==
    <<Row("Sales", "Revenue", "Yes", "Yes", "Yes", "This week", "This week", "Drives revenue"),
      Row("Ops", "Uptime", "Yes", "No", "No", "Unknown", "last month", "")>>

\* load_data of lines 125-144 on the chosen file: Ok(table) or the exception.
load_file(file, present) ==
    IF file = "broken.csv" THEN Raise([error |-> "ParserError", key |-> file])
    ELSE IF file = "sample" /\ ~present
         THEN Raise([error |-> "FileNotFoundError", key |-> file])
    ELSE IF file = "short.csv"
         THEN Ok(load_data(RequiredColumns \ {"Interpretation_Notes"}, FileLines))
    ELSE IF file = "sample" THEN Ok(load_data(RequiredColumns, FileLines))
    ELSE Ok(load_data(RequiredColumns, SubSeq(FileLines, 1, 1)))

NoFrames == [o \in {} |-> None]

\* The end of a run that loaded nothing.
Blank(p, s) ==
    [ss |-> s, df |-> NoRef] @@ Locals(p, NoFrames, NoRef, NoRef, None, None, None)

\* Lines 70-212 in a run where no button of the page is clicked: the ends
\* the run can have, each with the session state it leaves.
ScriptBody(s, up, use, present) ==
    IF truthy_key(s, "show_homepage") THEN {Blank("homepage", s)}
    ELSE IF ~truthy_key(s, "run_audit") THEN {Blank("prompt", s)}
    ELSE LET s2 == consume_run_audit(s)
             file == IF up # None THEN up ELSE IF use THEN "sample" ELSE None
         IN IF file = None THEN {Blank("no_data", s2)}
            ELSE LET loaded == load_file(file, present)
                 IN IF loaded.raised THEN {Blank("load_error", s2)}
                    ELSE {[ss |-> s2, df |-> 1] @@ o :
                            o \in AnalysisOutcomes((1 :> loaded.value), 1)}

Finish(o, ev) ==
    /\ ss' = o.ss /\ pc' = o.pc /\ heap' = o.heap /\ df' = o.df
    /\ vanity_df' = o.vanity_df /\ analyzed_df' = o.analyzed_df
    /\ top_metrics' = o.top_metrics /\ metrics_to_remove' = o.metrics_to_remove
    /\ impact_scores' = o.impact_scores
    /\ rerun' = FALSE /\ click' = ev /\ prev_click' = click

\* A run a button's body ended with st.rerun()
EndByRerun(s, ev) ==
    /\ ss' = s /\ pc' = "rerun" /\ heap' = NoFrames /\ df' = NoRef
    /\ vanity_df' = NoRef /\ analyzed_df' = NoRef
    /\ top_metrics' = None /\ metrics_to_remove' = None /\ impact_scores' = None
    /\ rerun' = TRUE /\ click' = ev /\ prev_click' = click
    /\ UNCHANGED <<uploaded_file, use_sample_data>>

\* The first run of the session, or the run st.rerun() asked for.
Rerun ==
    /\ rerun \/ pc = "idle"
    /\ \E o \in ScriptBody(reset_button(ss, FALSE), uploaded_file, use_sample_data,
                           sample_file) : Finish(o, None)
    /\ UNCHANGED <<uploaded_file, use_sample_data, sample_file, engine_vars, db_vars>>

\* The user uploads or removes a file, ticks or unticks the box, or uses a
\* widget of the page: a run with no button clicked.
Interact ==
    /\ ~rerun /\ pc # "idle"
    /\ \E up \in Uploads \cup {None}, use \in BOOLEAN :
        /\ uploaded_file' = up /\ use_sample_data' = use
        /\ \E o \in ScriptBody(reset_button(ss, FALSE), up, use, sample_file) :
              Finish(o, None)
    /\ UNCHANGED <<sample_file, engine_vars, db_vars>>

\* Lines 50-58: the button is there when a file is uploaded or the box ticked.
ClickAudit ==
    /\ ~rerun /\ pc # "idle"
    /\ uploaded_file # None \/ use_sample_data
    /\ EndByRerun(audit_click(ss), "audit")
    /\ UNCHANGED <<sample_file, engine_vars, db_vars>>

\* Lines 60-68
ClickReset ==
    /\ ~rerun /\ pc # "idle"
    /\ EndByRerun(reset_click(reset_button(ss, TRUE)), "reset")
    /\ UNCHANGED <<sample_file, engine_vars, db_vars>>

\* Lines 104-109: the button is on the homepage.
ClickStart ==
    /\ ~rerun /\ pc = "homepage"
    /\ EndByRerun(start_click(reset_button(ss, FALSE)), "start")
    /\ UNCHANGED <<sample_file, engine_vars, db_vars>>

InitUi ==
    /\ ss = EmptyState /\ uploaded_file = None /\ use_sample_data = TRUE
    /\ sample_file \in BOOLEAN /\ rerun = FALSE /\ click = None /\ prev_click = None
    /\ heap = NoFrames /\ AppIdle /\ DbIdle
    /\ fn = None /\ arg = 1 /\ n = 0 /\ ret = Ok(None)

NextUi == Rerun \/ Interact \/ ClickAudit \/ ClickReset \/ ClickStart

SpecUi == InitUi /\ [][NextUi]_vars

(***************************************************************************)
(* db_utils.py, lines 47-92: save_df_to_db.  kpi_metrics is what the       *)
(* table holds for any session once a transaction is committed (the rows   *)
(* without their generated ids).  A statement or a commit may fail in the  *)
(* database (connection lost, value rejected by a column): fault names the *)
(* step that does, if one does.                                            *)
(***************************************************************************)
MaxDbRows == 2

Faults == {"none", "delete", "commit", "insert"}

\* float(x): the number of a numeric text (the scores a DataFrame read from
\* text holds), ValueError otherwise
float_raises(x) == x \notin {"0", "3", "5"}
float(x) == IF x = "0" THEN 0 ELSE IF x = "3" THEN 3 ELSE 5

\* row.get(key, default) for the text attributes
row_get(row, key, default) == IF key \in DOMAIN row THEN row[key] ELSE default

\* lines 61-76: the record of a row
record_of(row) ==
    [department |-> row_get(row, "Department", ""),
     metric_name |-> row_get(row, "Metric_Name", ""),
     visible_in_dashboard |-> row_get(row, "Visible_in_Dashboard", ""),
     used_in_decision_making |-> row_get(row, "Used_in_Decision_Making", ""),
     executive_requested |-> row_get(row, "Executive_Requested", ""),
     last_reviewed |-> row_get(row, "Last_Reviewed", ""),
     metric_last_used_for_decision |-> row_get(row, "Metric_Last_Used_For_Decision", ""),
     interpretation_notes |-> row_get(row, "Interpretation_Notes", ""),
     vanity_score |-> IF "vanity_score" \in DOMAIN row THEN float(row.vanity_score) ELSE 0,
     vanity_reasons |-> row_get(row, "vanity_reasons", ""),
     value_score |-> IF "value_score" \in DOMAIN row THEN float(row.value_score) ELSE 0,
     value_reasons |-> row_get(row, "value_reasons", ""),
     is_vanity |-> IF "is_vanity" \in DOMAIN row THEN row.is_vanity ELSE FALSE,
     is_high_value |-> IF "is_high_value" \in DOMAIN row THEN row.is_high_value ELSE FALSE]

\* Some row's score makes float() raise.
convert_raises(rows) ==
    \E i \in DOMAIN rows :
        \/ "vanity_score" \in DOMAIN rows[i] /\ float_raises(rows[i].vanity_score)
        \/ "value_score" \in DOMAIN rows[i] /\ float_raises(rows[i].value_score)

\* session.rollback(): undoes what the open transaction did; what was
\* committed stays.
rollback(committed, before) == committed

\* The call on the rows of df with the table holding `table`: the table
\* after it, the value returned and the last step reached.
save_df_to_db(table, rows, fault) ==
    IF fault \in {"delete", "commit"}
    THEN [table |-> rollback(table, table), ret |-> FALSE, step |-> fault]
    ELSE LET cleared == <<>>
         IN IF convert_raises(rows)
            THEN [table |-> rollback(cleared, table), ret |-> FALSE, step |-> "convert"]
            ELSE IF fault = "insert"
            THEN [table |-> rollback(cleared, table), ret |-> FALSE, step |-> "insert"]
            ELSE [table |-> [i \in DOMAIN rows |-> record_of(rows[i])],
                  ret |-> TRUE, step |-> "done"]

\* Rows of the DataFrames saved: classified rows, a row with only its
\* names, a row whose score is not a number.
DbLines ==
    {[Department |-> "Sales", Metric_Name |-> "Revenue", vanity_score |-> "0",
      value_score |-> "5", is_vanity |-> FALSE, is_high_value |-> TRUE],
     [Department |-> "Sales", Metric_Name |-> "Likes", vanity_score |-> "3",
      value_score |-> "0", is_vanity |-> TRUE, is_high_value |-> FALSE],
     [Department |-> "Ops", Metric_Name |-> "Uptime"],
     [Department |-> "Ops", Metric_Name |-> "Tickets", vanity_score |-> "n/a"]}

DbFrames == UNION {[1..k -> DbLines] : k \in 0..MaxDbRows}

SaveDf ==
    /\ \E rows \in DbFrames, fault \in Faults :
        LET r == save_df_to_db(kpi_metrics, rows, fault)
        IN /\ kpi_metrics' = r.table /\ db_before' = kpi_metrics
           /\ db_ret' = r.ret /\ db_step' = r.step
    /\ UNCHANGED <<heap, engine_vars, app_vars, ui_vars>>

InitDb ==
    /\ DbIdle /\ UiIdle /\ AppIdle /\ heap = NoFrames
    /\ fn = None /\ arg = 1 /\ n = 0 /\ ret = Ok(None)

NextDb == SaveDf

SpecDb == InitDb /\ [][NextDb]_vars

(***************************************************************************)
(* Properties                                                              *)
(***************************************************************************)
Classified(f) == fn = f /\ ~ret.raised
InRows == heap[arg].rows
Count(S) == Cardinality(S)

\* The sum of the contributions of the vanity rules a record matches.
VanityContribution(row) ==
    (IF row.Visible_in_Dashboard = "Yes" /\ row.Used_in_Decision_Making = "No"
     THEN 3 ELSE 0)
    + (IF row.Executive_Requested = "Yes" /\ row.Used_in_Decision_Making = "No"
       THEN 2 ELSE 0)
    + (IF row.Last_Reviewed \in {"Unknown", "Last quarter", "Last year"} THEN 1 ELSE 0)
    + (IF row.Metric_Last_Used_For_Decision \in {"Never", "Unknown", "Don't know"}
       THEN 2 ELSE 0)
    + 2 * Count({k \in {"vanity", "optics", "unclear ownership", "misinterpreted"} :
                   contains(k, lower(row.Interpretation_Notes))})

\* C1: identify_vanity_metrics gives every record the sum of the
\* contributions of the vanity rules it matches as vanity_score, and
\* is_vanity exactly when that score is at least 3.
C1_VanityScore ==
    Classified("identify_vanity_metrics") =>
        LET out == heap[ret.value].rows
        IN /\ Len(out) = Len(InRows)
           /\ \A i \in DOMAIN InRows :
                /\ out[i].row.vanity_score = VanityContribution(InRows[i].row)
                /\ out[i].row.is_vanity = (VanityContribution(InRows[i].row) >= 3)

\* A record matching rules 1 to 4 and two keywords of rule 5 was classified.
C1_Witness ==
    /\ Classified("identify_vanity_metrics")
    /\ \E i \in DOMAIN InRows :
        /\ InRows[i].row.Interpretation_Notes = "Vanity optics; drives revenue"
        /\ heap[ret.value].rows[i].row.vanity_score = 12
        /\ heap[ret.value].rows[i].row.is_vanity

\* The sum of the contributions of the value rules a record matches: rules 2
\* and 3 count once however many of their terms occur, rule 4 counts every
\* keyword.
ValueContribution(row) ==
    (IF row.Used_in_Decision_Making = "Yes" THEN 3 ELSE 0)
    + (IF \E t \in {"recently", "this week", "2 weeks ago", "last month"} :
             contains(t, lower(row.Metric_Last_Used_For_Decision))
       THEN 2 ELSE 0)
    + (IF \E t \in {"this week", "last month"} : contains(t, lower(row.Last_Reviewed))
       THEN 1 ELSE 0)
    + 2 * Count({k \in {"tied to real goals", "drives", "customer impact", "strategic",
                        "revenue"} :
                   contains(k, lower(row.Interpretation_Notes))})

\* C2: identify_valuable_metrics gives every record the sum of the
\* contributions of the value rules it matches as value_score (rules 2 and 3
\* at most once, rule 4 once per keyword), and is_high_value exactly when
\* that score is at least 4.
C2_ValueScore ==
    Classified("identify_valuable_metrics") =>
        LET out == heap[ret.value].rows
        IN /\ Len(out) = Len(InRows)
           /\ \A i \in DOMAIN InRows :
                /\ out[i].row.value_score = ValueContribution(InRows[i].row)
                /\ out[i].row.is_high_value = (ValueContribution(InRows[i].row) >= 4)

\* A record with two recency terms in each of the two date fields and two
\* value keywords in its notes was classified.
C2_Witness ==
    /\ Classified("identify_valuable_metrics")
    /\ \E i \in DOMAIN InRows :
        /\ InRows[i].row.Used_in_Decision_Making = "Yes"
        /\ InRows[i].row.Metric_Last_Used_For_Decision = "Recently or This week"
        /\ InRows[i].row.Last_Reviewed = "This week and last month"
        /\ InRows[i].row.Interpretation_Notes = "Vanity optics; drives revenue"
        /\ heap[ret.value].rows[i].row.value_score = 10

\* C3: a classifier applied to a table that already carries its derived
\* fields (its own output, or the output of the whole pipeline) returns the
\* same table: no score is doubled, no reason repeated.
C3_Idempotent ==
    /\ (Classified("identify_vanity_metrics") /\ "is_vanity" \in heap[arg].columns)
          => heap[ret.value] = heap[arg]
    /\ (Classified("identify_valuable_metrics") /\ "is_high_value" \in heap[arg].columns)
          => heap[ret.value] = heap[arg]

\* The pipeline's output, with a record of non-zero scores and reasons, was
\* classified again.
C3_Witness ==
    /\ Classified("identify_vanity_metrics")
    /\ {"is_vanity", "is_high_value"} \subseteq heap[arg].columns
    /\ \E i \in DOMAIN InRows :
        /\ InRows[i].row.vanity_score > 0 /\ InRows[i].row.vanity_reasons # ""
        /\ InRows[i].row.value_score > 0 /\ InRows[i].row.value_reasons # ""

Removable(e) ==
    e.row.is_vanity /\ e.row.Visible_in_Dashboard = "Yes" /\ ~e.row.is_high_value

\* C4: get_metrics_to_remove returns exactly the records that are vanity,
\* visible and not high-value; a high-value record is never among them.
C4_RemovalExact ==
    Classified("get_metrics_to_remove") =>
        LET out == ret.value.rows
            cand == {i \in DOMAIN InRows : Removable(InRows[i])}
        IN /\ Len(out) = Count(cand)
           /\ {out[j] : j \in DOMAIN out} = {InRows[i] : i \in cand}
           /\ \A j \in DOMAIN out : ~out[j].row.is_high_value

\* A table with a visible record that is both vanity and high-value, and
\* with a removal candidate, was filtered.
C4_Witness ==
    /\ Classified("get_metrics_to_remove")
    /\ ret.value.rows # <<>>
    /\ \E i \in DOMAIN InRows :
        /\ InRows[i].row.is_vanity /\ InRows[i].row.is_high_value
        /\ InRows[i].row.Visible_in_Dashboard = "Yes"

\* The rows in descending order of col, rows of equal col in their order.
StableDesc(rows, col) ==
    LET p == CHOOSE q \in Arrangements(Len(rows)) :
                 \A i, j \in 1..Len(rows) :
                     i < j => \/ rows[q[i]].row[col] > rows[q[j]].row[col]
                              \/ /\ rows[q[i]].row[col] = rows[q[j]].row[col]
                                 /\ q[i] < q[j]
    IN [i \in DOMAIN rows |-> rows[p[i]]]

DeptRows(d) ==
    boolean_index(InRows, [i \in DOMAIN InRows |-> InRows[i].row.Department = d], 1)

Min(a, b) == IF a < b THEN a ELSE b

\* C5: get_top_metrics_by_department(df, n) gives every department its
\* records in descending value_score, records of equal score in their
\* original order, cut to the first n.
C5_TopStable ==
    Classified("get_top_metrics_by_department") =>
        \A d \in DOMAIN ret.value :
            LET sorted == StableDesc(DeptRows(d), "value_score")
            IN ret.value[d].rows = SubSeq(sorted, 1, Min(n, Len(sorted)))

\* The value of the first key, in the order of the recency table, that the
\* text contains; 0 when it contains none.
RecencyValue(text) ==
    LET keys == <<"This week", "Recently", "2 weeks ago", "Last month", "Last quarter",
                  "Never", "Unknown", "Don't know">>
        tenths == <<10, 9, 8, 6, 3, 0, 0, 0>>
        hits == {k \in DOMAIN keys : contains(keys[k], text)}
    IN IF hits = {} THEN 0
       ELSE tenths[CHOOSE k \in hits : \A m \in hits : k <= m]

\* 0.4*d + 0.3*r + 0.1*v + 0.2*e, in hundredths
ImpactFormula(row) ==
    4 * (IF row.Used_in_Decision_Making = "Yes" THEN 10 ELSE 0)
    + 3 * RecencyValue(row.Metric_Last_Used_For_Decision)
    + 1 * (IF row.Visible_in_Dashboard = "Yes" THEN 5 ELSE 0)
    + 2 * (IF row.Executive_Requested = "Yes" THEN 8 ELSE 0)

IdOf(row) == row.Department \o "_" \o row.Metric_Name

\* C6: calculate_metric_impact_score stores for every record, under the
\* record's id, 0.4*d + 0.3*r + 0.1*v + 0.2*e of the last record with that id
\* (the record itself unless a later one shares its id); a record used in
\* decisions, last used "This week", visible and executive-requested scores
\* 0.91.
C6_ImpactScore ==
    Classified("calculate_metric_impact_score") =>
        \A i \in DOMAIN InRows :
            LET same == {j \in DOMAIN InRows : IdOf(InRows[j].row) = IdOf(InRows[i].row)}
                last == CHOOSE j \in same : \A m \in same : m <= j
                row == InRows[last].row
            IN /\ IdOf(row) \in DOMAIN ret.value
               /\ ret.value[IdOf(row)] = ImpactFormula(row)
               /\ (/\ row.Used_in_Decision_Making = "Yes"
                   /\ row.Metric_Last_Used_For_Decision = "This week"
                   /\ row.Visible_in_Dashboard = "Yes"
                   /\ row.Executive_Requested = "Yes") => ret.value[IdOf(row)] = 91

\* The record of the 0.91 example was scored, in a table where two records
\* of different scores share an id.
C6_Witness ==
    /\ Classified("calculate_metric_impact_score")
    /\ \E i, j \in DOMAIN InRows :
        /\ i < j /\ IdOf(InRows[i].row) = IdOf(InRows[j].row)
        /\ ImpactFormula(InRows[i].row) # ImpactFormula(InRows[j].row)
    /\ \E i \in DOMAIN InRows :
        /\ InRows[i].row.Used_in_Decision_Making = "Yes"
        /\ InRows[i].row.Metric_Last_Used_For_Decision = "This week"
        /\ InRows[i].row.Visible_in_Dashboard = "Yes"
        /\ InRows[i].row.Executive_Requested = "Yes"
        /\ ret.value[IdOf(InRows[i].row)] = 91

\* C7: when the table lacks one of the eight required columns, the analysis
\* section ends in an error (an exception, or the except branch and
\* st.stop) and never goes on to render results.
C7_MissingColumnFatal ==
    (pc # "loaded" /\ pc # "idle" /\ ~(RequiredColumns \subseteq heap[df].columns))
        => pc \in {"exception", "stopped"}

ClassifierFns == {"identify_vanity_metrics", "identify_valuable_metrics"}

\* C8: a classifier call leaves the table passed to it as it was, columns
\* and cells, and returns another object.
C8_InputNotMutated ==
    [][fn' \in ClassifierFns =>
          /\ heap'[arg'] = heap[arg']
          /\ ~ret'.raised => ret'.value # arg']_vars

\* A classifier returned a table with derived columns its argument lacks.
C8_Witness ==
    /\ fn \in ClassifierFns /\ ~ret.raised
    /\ heap[arg].rows # <<>>
    /\ heap[ret.value].columns # heap[arg].columns
    /\ heap[arg].columns = RequiredColumns

\* C9: the result of get_top_metrics_by_department(df, n) has a key for
\* exactly the departments of df's records; the list under a key is not
\* empty, holds only records of df with that department, and has
\* min(n, number of records of the department) entries.
C9_TopKeys ==
    Classified("get_top_metrics_by_department") =>
        /\ DOMAIN ret.value = {InRows[i].row.Department : i \in DOMAIN InRows}
        /\ \A d \in DOMAIN ret.value :
            LET list == ret.value[d].rows
            IN /\ list # <<>>
               /\ \A j \in DOMAIN list :
                    /\ list[j].row.Department = d
                    /\ \E i \in DOMAIN InRows : InRows[i] = list[j]
               /\ \A j, m \in DOMAIN list : j # m => list[j] # list[m]
               /\ Len(list) = Min(n, Len(DeptRows(d)))

\* A table of two departments, one with more than n records, was ranked.
C9_Witness ==
    /\ Classified("get_top_metrics_by_department")
    /\ Count(DOMAIN ret.value) = 2
    /\ \E d \in DOMAIN ret.value : Len(DeptRows(d)) > n /\ Len(ret.value[d].rows) = n

\* The position in the input of an entry of the result.
Position(e) == CHOOSE i \in DOMAIN InRows : InRows[i] = e

\* C10: the list get_metrics_to_remove returns is in descending
\* vanity_score, and records of equal vanity_score are in their input order.
C10_RemovalStable ==
    Classified("get_metrics_to_remove") =>
        LET out == ret.value.rows
        IN \A j \in 1..(Len(out) - 1) :
            \/ out[j].row.vanity_score > out[j + 1].row.vanity_score
            \/ /\ out[j].row.vanity_score = out[j + 1].row.vanity_score
               /\ Position(out[j]) < Position(out[j + 1])

\* C11: every impact score calculate_metric_impact_score returns lies in
\* [0, 1] (0..100 hundredths).
C11_ImpactInUnitInterval ==
    Classified("calculate_metric_impact_score") =>
        \A k \in DOMAIN ret.value : 0 <= ret.value[k] /\ ret.value[k] <= 100

\* A table was scored in which one record has every component at its
\* highest and another has none but visibility.
C11_Witness ==
    /\ Classified("calculate_metric_impact_score")
    /\ \E k, m \in DOMAIN ret.value : ret.value[k] = 91 /\ ret.value[m] = 5

\* C12: a record that is both is_vanity and is_high_value is never among the
\* removal candidates (and such records exist: the witness has one).
C12_OverlapKept ==
    Classified("get_metrics_to_remove") =>
        /\ \A j \in DOMAIN ret.value.rows :
              ~(ret.value.rows[j].row.is_vanity /\ ret.value.rows[j].row.is_high_value)
        /\ \A i \in DOMAIN InRows :
              (InRows[i].row.is_vanity /\ InRows[i].row.is_high_value)
                  => \A j \in DOMAIN ret.value.rows : ret.value.rows[j] # InRows[i]

\* The pipeline flagged a visible record both ways; the removal list was
\* derived, holds another record and not this one.
C12_Witness ==
    /\ Classified("get_metrics_to_remove")
    /\ ret.value.rows # <<>>
    /\ \E i \in DOMAIN InRows :
        /\ InRows[i].row.is_vanity /\ InRows[i].row.is_high_value
        /\ InRows[i].row.Visible_in_Dashboard = "Yes"
        /\ \A j \in DOMAIN ret.value.rows : ret.value.rows[j] # InRows[i]

\* C13: when the (Department, Metric_Name) pairs of the records are pairwise
\* distinct, the impact mapping has one entry per record and each entry is
\* the score of its own record.
C13_DistinctPairsDistinctKeys ==
    (/\ Classified("calculate_metric_impact_score")
     /\ \A i, j \in DOMAIN InRows :
           i # j => <<InRows[i].row.Department, InRows[i].row.Metric_Name>>
                    # <<InRows[j].row.Department, InRows[j].row.Metric_Name>>)
        => /\ Count(DOMAIN ret.value) = Len(InRows)
           /\ \A i \in DOMAIN InRows :
                 ret.value[IdOf(InRows[i].row)] = ImpactFormula(InRows[i].row)

\* A keyword of the set occurs, in any case, in a cell that is a string.
Mentions(x, words) == x # NaN /\ \E w \in words : contains(w, lower(x))

\* C14: on a table with all required columns the two classifiers and the
\* impact scorer return without raising, whatever the cells hold (missing
\* values and unrecognized labels included); a rule that does not match adds
\* no reason fragment, and a record no rule matches scores 0 with no reason.
C14_NoRecordRaises ==
    (/\ fn \in ClassifierFns \cup {"calculate_metric_impact_score"}
     /\ RequiredColumns \subseteq heap[arg].columns)
        => /\ ~ret.raised
           /\ fn = "identify_vanity_metrics" =>
                \A i \in DOMAIN InRows :
                    LET in == InRows[i].row
                        out == heap[ret.value].rows[i].row
                        r12 == in.Used_in_Decision_Making = "No"
                               /\ "Yes" \in {in.Visible_in_Dashboard, in.Executive_Requested}
                        r3 == in.Last_Reviewed \in {"Unknown", "Last quarter", "Last year"}
                        r4 == in.Metric_Last_Used_For_Decision
                                  \in {"Never", "Unknown", "Don't know"}
                        r5 == Mentions(in.Interpretation_Notes,
                                  {"vanity", "optics", "unclear ownership", "misinterpreted"})
                    IN /\ ~r12 => ~contains("not used", out.vanity_reasons)
                       /\ ~r3 => ~contains("Not recently reviewed", out.vanity_reasons)
                       /\ ~r4 => ~contains("Never or rarely used", out.vanity_reasons)
                       /\ ~r5 => ~contains("Notes indicate", out.vanity_reasons)
                       /\ ~(r12 \/ r3 \/ r4 \/ r5)
                            => out.vanity_score = 0 /\ out.vanity_reasons = ""
           /\ fn = "identify_valuable_metrics" =>
                \A i \in DOMAIN InRows :
                    LET in == InRows[i].row
                        out == heap[ret.value].rows[i].row
                        r1 == in.Used_in_Decision_Making = "Yes"
                        r2 == Mentions(in.Metric_Last_Used_For_Decision,
                                  {"recently", "this week", "2 weeks ago", "last month"})
                        r3 == Mentions(in.Last_Reviewed, {"this week", "last month"})
                        r4 == Mentions(in.Interpretation_Notes,
                                  {"tied to real goals", "drives", "customer impact",
                                   "strategic", "revenue"})
                    IN /\ ~r1 => ~contains("Used in decisions", out.value_reasons)
                       /\ ~r2 => ~contains("Recently used", out.value_reasons)
                       /\ ~r3 => ~contains("Recently reviewed", out.value_reasons)
                       /\ ~r4 => ~contains("Notes indicate", out.value_reasons)
                       /\ ~(r1 \/ r2 \/ r3 \/ r4)
                            => out.value_score = 0 /\ out.value_reasons = ""
           /\ fn = "calculate_metric_impact_score" =>
                \A i \in DOMAIN InRows :
                    LET in == InRows[i].row
                    IN (/\ in.Used_in_Decision_Making # "Yes"
                        /\ in.Visible_in_Dashboard # "Yes"
                        /\ in.Executive_Requested # "Yes"
                        /\ in.Metric_Last_Used_For_Decision = NaN)
                           => \E k \in DOMAIN ret.value : ret.value[k] = 0

\* The value classifier returned for a record whose three text cells are
\* all missing values, and gave it no point.
C14_Witness ==
    /\ Classified("identify_valuable_metrics")
    /\ \E i \in DOMAIN InRows :
        /\ InRows[i].row.Metric_Last_Used_For_Decision = NaN
        /\ InRows[i].row.Last_Reviewed = NaN
        /\ InRows[i].row.Interpretation_Notes = NaN
        /\ heap[ret.value].rows[i].row.value_score = 0

RecencyKeys ==
    <<"This week", "Recently", "2 weeks ago", "Last month", "Last quarter", "Never",
      "Unknown", "Don't know">>

RecencyTenths == <<10, 9, 8, 6, 3, 0, 0, 0>>

\* The recency part (hundredths) of the score stored under the id of a row.
RecencyPart(row) ==
    ret.value[IdOf(row)]
    - 4 * (IF row.Used_in_Decision_Making = "Yes" THEN 10 ELSE 0)
    - (IF row.Visible_in_Dashboard = "Yes" THEN 5 ELSE 0)
    - 2 * (IF row.Executive_Requested = "Yes" THEN 8 ELSE 0)

\* The record whose score the mapping holds under the id of record i.
Owner(i) ==
    CHOOSE j \in DOMAIN InRows :
        /\ IdOf(InRows[j].row) = IdOf(InRows[i].row)
        /\ \A m \in DOMAIN InRows : IdOf(InRows[m].row) = IdOf(InRows[i].row) => m <= j

\* C15: the recency sub-score is the value of the first key, in the order
\* This week, Recently, 2 weeks ago, Last month, Last quarter, Never,
\* Unknown, Don't know, that Metric_Last_Used_For_Decision contains as a
\* substring, wherever the keys stand in the text, and 0 when it contains
\* none.
C15_RecencyFirstKey ==
    Classified("calculate_metric_impact_score") =>
        \A i \in DOMAIN InRows :
            LET row == InRows[Owner(i)].row
                text == row.Metric_Last_Used_For_Decision
            IN /\ \A k \in DOMAIN RecencyKeys :
                    (/\ contains(RecencyKeys[k], text)
                     /\ \A m \in 1..(k - 1) : ~contains(RecencyKeys[m], text))
                        => RecencyPart(row) = 3 * RecencyTenths[k]
               /\ (\A k \in DOMAIN RecencyKeys : ~contains(RecencyKeys[k], text))
                    => RecencyPart(row) = 0

\* A text that names Recently before This week got the value of This week.
C15_Witness ==
    /\ Classified("calculate_metric_impact_score")
    /\ \E i \in DOMAIN InRows :
        /\ InRows[i].row.Metric_Last_Used_For_Decision = "Recently or This week"
        /\ RecencyPart(InRows[i].row) = 30

\* The fragments joined by "; "
RECURSIVE Join(_)
Join(frags) ==
    IF frags = <<>> THEN ""
    ELSE IF Len(frags) = 1 THEN frags[1]
    ELSE frags[1] \o "; " \o Join(Tail(frags))

\* <<frag>> when the rule matched, else <<>>
Frag(matched, frag) == IF matched THEN <<frag>> ELSE <<>>

VanityFragments(row) ==
    Frag(row.Visible_in_Dashboard = "Yes" /\ row.Used_in_Decision_Making = "No",
         "Visible but not used in decisions")
    \o Frag(row.Executive_Requested = "Yes" /\ row.Used_in_Decision_Making = "No",
            "Executive requested but not used")
    \o Frag(row.Last_Reviewed \in {"Unknown", "Last quarter", "Last year"},
            "Not recently reviewed")
    \o Frag(row.Metric_Last_Used_For_Decision \in {"Never", "Unknown", "Don't know"},
            "Never or rarely used for decisions")
    \o Frag(Mentions(row.Interpretation_Notes, {"vanity"}), "Notes indicate vanity (vanity)")
    \o Frag(Mentions(row.Interpretation_Notes, {"optics"}), "Notes indicate vanity (optics)")
    \o Frag(Mentions(row.Interpretation_Notes, {"unclear ownership"}),
            "Notes indicate vanity (unclear ownership)")
    \o Frag(Mentions(row.Interpretation_Notes, {"misinterpreted"}),
            "Notes indicate vanity (misinterpreted)")

ValueFragments(row) ==
    Frag(row.Used_in_Decision_Making = "Yes", "Used in decisions")
    \o Frag(Mentions(row.Metric_Last_Used_For_Decision,
                     {"recently", "this week", "2 weeks ago", "last month"}),
            "Recently used for decisions")
    \o Frag(Mentions(row.Last_Reviewed, {"this week", "last month"}), "Recently reviewed")
    \o Frag(Mentions(row.Interpretation_Notes, {"tied to real goals"}),
            "Notes indicate value (tied to real goals)")
    \o Frag(Mentions(row.Interpretation_Notes, {"drives"}), "Notes indicate value (drives)")
    \o Frag(Mentions(row.Interpretation_Notes, {"customer impact"}),
            "Notes indicate value (customer impact)")
    \o Frag(Mentions(row.Interpretation_Notes, {"strategic"}),
            "Notes indicate value (strategic)")
    \o Frag(Mentions(row.Interpretation_Notes, {"revenue"}), "Notes indicate value (revenue)")

\* C16: vanity_reasons (value_reasons) is the fragments of exactly the
\* matched rules, in rule order and within the keyword rule in keyword
\* order, joined by "; " with no separator before or after; it is empty
\* exactly when the score is 0.
C16_Reasons ==
    /\ Classified("identify_vanity_metrics") =>
          \A i \in DOMAIN InRows :
              LET out == heap[ret.value].rows[i].row
              IN /\ out.vanity_reasons = Join(VanityFragments(InRows[i].row))
                 /\ out.vanity_reasons = "" <=> out.vanity_score = 0
    /\ Classified("identify_valuable_metrics") =>
          \A i \in DOMAIN InRows :
              LET out == heap[ret.value].rows[i].row
              IN /\ out.value_reasons = Join(ValueFragments(InRows[i].row))
                 /\ out.value_reasons = "" <=> out.value_score = 0

\* A record was classified whose notes match two vanity keywords and whose
\* reasons hold rule fragments before the two keyword fragments.
C16_Witness ==
    /\ Classified("identify_vanity_metrics")
    /\ \E i \in DOMAIN InRows :
        /\ Len(VanityFragments(InRows[i].row)) >= 4
        /\ contains("reviewed; Notes indicate vanity (vanity); Notes indicate vanity (optics)",
                    heap[ret.value].rows[i].row.vanity_reasons)

VanityFields == {"vanity_score", "vanity_reasons", "is_vanity"}
ValueFields == {"value_score", "value_reasons", "is_high_value"}

\* The table with only the columns cols
Restrict(T, cols) ==
    [columns |-> T.columns \cap cols,
     rows |-> [i \in DOMAIN T.rows |->
                 [idx |-> T.rows[i].idx,
                  row |-> [c \in T.columns \cap cols |-> T.rows[i].row[c]]]]]

\* C17: the classifiers commute.  When the second classifier of a pipeline
\* has returned, its result has the rows (input attributes and the six
\* derived fields) that the classifiers applied in the other order give;
\* the first classifier's fields are as they were, and the second's are
\* what it computes on the table without the first's.
C17_Commute ==
    /\ (/\ Classified("identify_valuable_metrics")
        /\ "is_vanity" \in heap[arg].columns /\ "is_high_value" \notin heap[arg].columns)
          => LET raw == Restrict(heap[arg], RequiredColumns)
                 alone == value_body(raw).value
             IN /\ heap[ret.value].rows = vanity_body(alone).value.rows
                /\ Restrict(heap[ret.value], VanityFields) = Restrict(heap[arg], VanityFields)
                /\ Restrict(heap[ret.value], ValueFields) = Restrict(alone, ValueFields)
    /\ (/\ Classified("identify_vanity_metrics")
        /\ "is_high_value" \in heap[arg].columns /\ "is_vanity" \notin heap[arg].columns)
          => LET raw == Restrict(heap[arg], RequiredColumns)
                 alone == vanity_body(raw).value
             IN /\ heap[ret.value].rows = value_body(alone).value.rows
                /\ Restrict(heap[ret.value], ValueFields) = Restrict(heap[arg], ValueFields)
                /\ Restrict(heap[ret.value], VanityFields) = Restrict(alone, VanityFields)

\* The value classifier returned for a table the vanity classifier had
\* given points and reasons, and gave points and reasons itself.
C17_Witness ==
    /\ Classified("identify_valuable_metrics")
    /\ "is_vanity" \in heap[arg].columns /\ "is_high_value" \notin heap[arg].columns
    /\ Len(InRows) >= 2
    /\ \E i \in DOMAIN InRows :
        /\ heap[ret.value].rows[i].row.vanity_score > 0
        /\ heap[ret.value].rows[i].row.value_score > 0

AnalysisEnds == {"exception", "stopped", "tabs"}

\* C18: a run loads data and runs the analysis only when the run before it
\* was ended by a click on Audit Metrics (there only with a file uploaded or
\* the box ticked) and it is itself the run of no click that follows; the
\* flag is gone once read, so it is set only between the click and that run.
C18_AuditFlagOnce ==
    /\ (df # NoRef \/ pc \in AnalysisEnds)
          => /\ prev_click = "audit" /\ click = None
             /\ df # NoRef /\ pc \in AnalysisEnds
    /\ click = "audit" => (uploaded_file # None \/ use_sample_data)
    /\ "run_audit" \in DOMAIN ss => (click = "audit" /\ pc = "rerun" /\ ss["run_audit"])
    /\ prev_click = "audit" => "run_audit" \notin DOMAIN ss

\* The run after a click on Audit Metrics loaded the uploaded file and went
\* through the analysis to the tabs.
C18_Witness ==
    /\ prev_click = "audit" /\ click = None
    /\ uploaded_file = "kpi.csv" /\ df # NoRef /\ pc = "tabs"
    /\ "run_audit" \notin DOMAIN ss

\* C19: a click on Reset Analysis leaves show_homepage = True as the only
\* key of the session state; from then on, every run that is not a click on
\* Start Analysis or Audit Metrics keeps the flag and, unless it is another
\* reset, renders the homepage and stops without loading data.
C19_ResetToHomepage ==
    /\ [](click = "reset" => ss = [k \in {"show_homepage"} |-> TRUE])
    /\ [][(truthy_key(ss, "show_homepage") /\ click' \notin {"start", "audit"})
            => /\ truthy_key(ss', "show_homepage")
               /\ click' = "reset" \/ (pc' = "homepage" /\ df' = NoRef)]_vars

\* Reset Analysis was clicked in the run after an analysis, and the run that
\* followed showed the homepage.
C19_Witness ==
    /\ prev_click = "reset" /\ click = None
    /\ pc = "homepage" /\ df = NoRef
    /\ truthy_key(ss, "show_homepage") /\ "run_audit" \notin DOMAIN ss

\* C20: when save_df_to_db returns False, the table holds the rows it held
\* when the call was made.
C20_AllOrNothing == (db_step # "idle" /\ db_ret = FALSE) => kpi_metrics = db_before

====
